---- MODULE Spec2Model ----
(***************************************************************************)
(* Model of src/versioning.py: the Versioning and Version views over the   *)
(* "versioning" block of a versioned CityJSON document.                     *)
(*                                                                          *)
(* The document is the parsed JSON tree  self._json  of Versioning:         *)
(*   doc.versions : version name -> stored version object                   *)
(*   doc.branches : branch name  -> version name                            *)
(*   doc.tags     : tag name     -> version name                            *)
(* A stored version object is a JSON object (a record); its "parents" key   *)
(* is optional, so "parents" \in DOMAIN j is Python's  "parents" in j.      *)
(* A call either returns a value or raises; the outcome of the last call    *)
(* is kept in  result  as [kind |-> "ok", value |-> v] or                   *)
(* [kind |-> <the Python exception class>].                                 *)
(***************************************************************************)
EXTENDS Naturals, Sequences, FiniteSets, TLC

VARIABLES doc, op, arg, val, result

vars == <<doc, op, arg, val, result>>

(* ------------------------------ bounds --------------------------------- *)

\* most entries of doc.branches, and of doc.tags, in a document of SpecRef
MaxLabels == 2

\* longest stored parent list in a document of SpecVer
MaxParents == 2

\* the strings used as version names, branch names, tag names and refs
Names == {"A", "B", "main"}

\* the strings assigned to / stored in "message"
Messages == {"root", "second"}

(* --------------------------- documents --------------------------------- *)

\* a stored version object without a "parents" key
Orphan(m) ==
  [author |-> "author", message |-> m, date |-> "date", objects |-> "objects"]

\* a stored version object with a "parents" key
Child(m, ps) ==
  [author |-> "author", message |-> m, date |-> "date", objects |-> "objects",
   parents |-> ps]

\* lists of at most n distinct names
ParentLists(n) ==
  UNION {{ps \in [1..k -> Names] : \A i, j \in 1..k : ps[i] = ps[j] => i = j}
         : k \in 0..n}

\* mappings name -> name with at most k entries
LabelMaps(k) ==
  UNION {[S -> Names] : S \in {T \in SUBSET Names : Cardinality(T) <= k}}

\* mappings name -> stored version object drawn from the set objs
VersionMaps(objs) == UNION {[S -> objs] : S \in SUBSET Names}

NoResult == [kind |-> "none"]

Ok(v) == [kind |-> "ok", value |-> v]

Raise(e) == [kind |-> e]

(* ------------------------- class Versioning ---------------------------- *)

\* Version.__init__ with an explicit version_name: the view keeps the stored
\* object (by reference) and the name
Version(data, version_name) == [name |-> version_name, json |-> data]

\* Versioning.versions
versions(json) ==
  [k \in DOMAIN json.versions |-> Version(json.versions[k], k)]

\* resolve_ref looking the ref up in branches and tags before versions
resolve_ref_labels_first(json, ref) ==
  IF ref \in DOMAIN json.branches THEN Ok(json.branches[ref])
  ELSE IF ref \in DOMAIN json.tags THEN Ok(json.tags[ref])
  ELSE IF ref \in DOMAIN versions(json) THEN Ok(ref)
  ELSE Raise("IndexError")

\* resolve_ref returning the branch or tag name instead of its target
resolve_ref_no_target(json, ref) ==
  IF ref \in DOMAIN versions(json) THEN Ok(ref)
  ELSE IF ref \in DOMAIN json.branches THEN Ok(ref)
  ELSE IF ref \in DOMAIN json.tags THEN Ok(ref)
  ELSE Raise("IndexError")

\* resolve_ref looking the ref up in tags before branches
resolve_ref_tags_first(json, ref) ==
  IF ref \in DOMAIN versions(json) THEN Ok(ref)
  ELSE IF ref \in DOMAIN json.tags THEN Ok(json.tags[ref])
  ELSE IF ref \in DOMAIN json.branches THEN Ok(json.branches[ref])
  ELSE Raise("IndexError")

\* resolve_ref handing an unknown ref back instead of raising
resolve_ref_fallback(json, ref) ==
  IF ref \in DOMAIN versions(json) THEN Ok(ref)
  ELSE IF ref \in DOMAIN json.branches THEN Ok(json.branches[ref])
  ELSE IF ref \in DOMAIN json.tags THEN Ok(json.tags[ref])
  ELSE Ok(ref)

\* Versioning.resolve_ref
resolve_ref(json, ref) ==
  IF ref \in DOMAIN versions(json) THEN Ok(ref)
  ELSE IF ref \in DOMAIN json.branches THEN Ok(json.branches[ref])
  ELSE IF ref \in DOMAIN json.tags THEN Ok(json.tags[ref])
  ELSE Raise("IndexError")

\* dict subscript  d[k]: the value, or KeyError
Subscript(d, k) == IF k \in DOMAIN d THEN Ok(d[k]) ELSE Raise("KeyError")

\* get_version_from_ref reporting a missing version as resolve_ref reports an
\* unknown ref
get_version_from_ref_one_error(json, ref) ==
  LET r == resolve_ref(json, ref)
  IN  IF r.kind # "ok" THEN r
      ELSE IF r.value \in DOMAIN versions(json)
           THEN Ok(versions(json)[r.value])
           ELSE Raise("IndexError")

\* Versioning.get_version_from_ref
get_version_from_ref(json, ref) ==
  LET r == resolve_ref(json, ref)
  IN  IF r.kind # "ok" THEN r ELSE Subscript(versions(json), r.value)

\* Versioning.branches: every target is looked up in versions
branches(json) ==
  IF \E k \in DOMAIN json.branches : json.branches[k] \notin DOMAIN versions(json)
  THEN Raise("KeyError")
  ELSE Ok([k \in DOMAIN json.branches |-> versions(json)[json.branches[k]]])

\* Versioning.tags: every target is looked up in versions
tags(json) ==
  IF \E k \in DOMAIN json.tags : json.tags[k] \notin DOMAIN versions(json)
  THEN Raise("KeyError")
  ELSE Ok([k \in DOMAIN json.tags |-> versions(json)[json.tags[k]]])

(* --------------------------- class Version ----------------------------- *)

\* Version.name
name(self) == self.name

\* Version.message (getter)
message(self) == self.json.message

\* a setter writing into a copy of the stored object: the document is untouched
set_message_on_copy(json, self, value) == json

\* Version.message (setter): writes the key "message" of the stored object the
\* view refers to, which is the object at versions[name] of the document
set_message(json, self, value) ==
  [json EXCEPT !.versions[self.name].message = value]

\* Version.has_parents
has_parents(self) == "parents" \in DOMAIN self.json

\* parents resolving each stored name as a ref (through branches and tags)
parents_through_refs(json, self) ==
  IF has_parents(self)
  THEN LET ps == self.json.parents
           rs == [i \in 1..Len(ps) |-> get_version_from_ref(json, ps[i])]
       IN  IF \E i \in 1..Len(ps) : rs[i].kind # "ok"
           THEN Raise("KeyError")
           ELSE Ok([i \in 1..Len(ps) |-> rs[i].value])
  ELSE Ok(<<>>)

\* Version.parents
parents(json, self) ==
  IF has_parents(self)
  THEN LET ps == self.json.parents
       IN  IF \E i \in 1..Len(ps) : ps[i] \notin DOMAIN versions(json)
           THEN Raise("KeyError")
           ELSE Ok([i \in 1..Len(ps) |-> versions(json)[ps[i]]])
  ELSE Ok(<<>>)

\* Version.branches: the branch names, a list without repetition in the
\* order of the dict, kept here as the set of its elements
Version_branches(json, self) ==
  LET bs == branches(json)
  IN  IF bs.kind # "ok" THEN bs
      ELSE Ok({branch_name \in DOMAIN bs.value :
                 name(bs.value[branch_name]) = self.name})

\* Version.tags: the tag names, as a set like Version_branches
Version_tags(json, self) ==
  LET ts == tags(json)
  IN  IF ts.kind # "ok" THEN ts
      ELSE Ok({tag_name \in DOMAIN ts.value :
                 name(ts.value[tag_name]) = self.name})

(* ----------------------------- actions --------------------------------- *)

ResolveRef(ref) ==
  /\ op' = "resolve_ref"
  /\ arg' = ref
  /\ val' = ""
  /\ result' = resolve_ref(doc, ref)
  /\ UNCHANGED doc

GetVersionFromRef(ref) ==
  /\ op' = "get_version_from_ref"
  /\ arg' = ref
  /\ val' = ""
  /\ result' = get_version_from_ref(doc, ref)
  /\ UNCHANGED doc

\* v = versioning.versions[n]; v.has_parents()
HasParents(n) ==
  /\ n \in DOMAIN versions(doc)
  /\ op' = "has_parents"
  /\ arg' = n
  /\ val' = ""
  /\ result' = Ok(has_parents(versions(doc)[n]))
  /\ UNCHANGED doc

\* v = versioning.versions[n]; v.parents
Parents(n) ==
  /\ n \in DOMAIN versions(doc)
  /\ op' = "parents"
  /\ arg' = n
  /\ val' = ""
  /\ result' = parents(doc, versions(doc)[n])
  /\ UNCHANGED doc

\* v = versioning.versions[n]; v.branches
VersionBranches(n) ==
  /\ n \in DOMAIN versions(doc)
  /\ op' = "branches"
  /\ arg' = n
  /\ val' = ""
  /\ result' = Version_branches(doc, versions(doc)[n])
  /\ UNCHANGED doc

\* v = versioning.versions[n]; v.tags
VersionTags(n) ==
  /\ n \in DOMAIN versions(doc)
  /\ op' = "tags"
  /\ arg' = n
  /\ val' = ""
  /\ result' = Version_tags(doc, versions(doc)[n])
  /\ UNCHANGED doc

\* v = versioning.versions[n]; v.message = value
SetMessage(n, value) ==
  /\ n \in DOMAIN versions(doc)
  /\ op' = "set_message"
  /\ arg' = n
  /\ val' = value
  /\ result' = NoResult
  /\ doc' = set_message(doc, versions(doc)[n], value)

\* v = versioning.versions[n]; v.message
GetMessage(n) ==
  /\ n \in DOMAIN versions(doc)
  /\ op' = "message"
  /\ arg' = n
  /\ val' = ""
  /\ result' = Ok(message(versions(doc)[n]))
  /\ UNCHANGED doc

Loaded ==
  /\ op = "load"
  /\ arg = ""
  /\ val = ""
  /\ result = NoResult

\* documents that differ in their branches and tags
InitRef ==
  /\ doc \in [versions : VersionMaps({Orphan("root")}),
              branches : LabelMaps(MaxLabels),
              tags : LabelMaps(MaxLabels)]
  /\ Loaded

NextRef ==
  \E ref \in Names :
    \/ ResolveRef(ref)
    \/ GetVersionFromRef(ref)
    \/ VersionBranches(ref)
    \/ VersionTags(ref)

SpecRef == InitRef /\ [][NextRef]_vars

\* mappings name -> name with no entry, and with exactly one entry
NoLabel == [{} -> Names]

OneLabel == UNION {[{k} -> Names] : k \in Names}

\* branches and tags holding at most one entry between them
FewLabels ==
  {[branches |-> b, tags |-> t] :
     <<b, t>> \in (NoLabel \X NoLabel) \cup (OneLabel \X NoLabel)
                    \cup (NoLabel \X OneLabel)}

\* documents that differ in the stored parent lists
InitVer ==
  /\ \E vs \in VersionMaps({Orphan("root")}
                 \cup {Child("root", ps) : ps \in ParentLists(MaxParents)}),
        ls \in FewLabels :
       doc = [versions |-> vs, branches |-> ls.branches, tags |-> ls.tags]
  /\ Loaded

NextVer ==
  \E n \in Names :
    \/ HasParents(n)
    \/ Parents(n)

SpecVer == InitVer /\ [][NextVer]_vars

\* documents whose versions have no, an empty or a one-element parent list
InitMsg ==
  /\ \E vs \in VersionMaps({Orphan("root"), Child("root", <<>>)}
                 \cup {Child("root", <<p>>) : p \in Names}),
        ls \in FewLabels :
       doc = [versions |-> vs, branches |-> ls.branches, tags |-> ls.tags]
  /\ Loaded

NextMsg ==
  \E n \in Names :
    \/ \E value \in Messages : SetMessage(n, value)
    \/ GetMessage(n)

SpecMsg == InitMsg /\ [][NextMsg]_vars

(* ------------------------------ claims --------------------------------- *)

\* the kind of error resolve_ref raises for a ref that is in no namespace
UnresolvedKind ==
  resolve_ref([versions |-> <<>>, branches |-> <<>>, tags |-> <<>>], "A").kind

\* C1: resolve_ref of a name that is a key of versions returns that name,
\* whatever branches and tags hold under the same name.
C1_VersionNameResolvesToItself ==
  (op = "resolve_ref" /\ arg \in DOMAIN doc.versions) => result = Ok(arg)

\* C1 witness: a version name that is also a branch and a tag, both pointing
\* elsewhere, was resolved.
C1_Witness ==
  /\ op = "resolve_ref"
  /\ arg \in DOMAIN doc.versions
  /\ arg \in DOMAIN doc.branches /\ doc.branches[arg] # arg
  /\ arg \in DOMAIN doc.tags /\ doc.tags[arg] # arg
  /\ result = Ok(arg)

\* C2 as stated: resolve_ref of every branch name returns the branch's target
\* and resolve_ref of every tag name returns the tag's target.
C2_EveryLabelResolvesToItsTarget ==
  op = "resolve_ref" =>
    /\ arg \in DOMAIN doc.branches => result = Ok(doc.branches[arg])
    /\ arg \in DOMAIN doc.tags => result = Ok(doc.tags[arg])

\* C2 amended: resolve_ref of a branch name that is no version name returns the
\* branch's target; resolve_ref of a tag name that is neither a version name
\* nor a branch name returns the tag's target.
C2_UnshadowedLabelResolvesToItsTarget ==
  (op = "resolve_ref" /\ arg \notin DOMAIN doc.versions) =>
    /\ arg \in DOMAIN doc.branches => result = Ok(doc.branches[arg])
    /\ (arg \in DOMAIN doc.tags /\ arg \notin DOMAIN doc.branches)
         => result = Ok(doc.tags[arg])

\* C2 witness: a branch name that is no version name was resolved to its
\* target, a version of the document.
C2_Witness ==
  /\ op = "resolve_ref"
  /\ arg \notin DOMAIN doc.versions
  /\ arg \in DOMAIN doc.branches
  /\ doc.branches[arg] \in DOMAIN doc.versions
  /\ result = Ok(doc.branches[arg])

\* C3: resolve_ref of a branch or tag whose target is no key of versions fails,
\* with an error other than the unresolved-reference error.
C3_DanglingLabelFails ==
  (/\ op = "resolve_ref"
   /\ arg \notin DOMAIN doc.versions
   /\ \/ arg \in DOMAIN doc.branches /\ doc.branches[arg] \notin DOMAIN doc.versions
      \/ /\ arg \notin DOMAIN doc.branches
         /\ arg \in DOMAIN doc.tags /\ doc.tags[arg] \notin DOMAIN doc.versions)
  => result.kind \notin {"ok", UnresolvedKind}

\* C4: a ref that is a key of none of versions, branches and tags makes
\* resolve_ref and get_version_from_ref end in the unresolved-reference error.
C4_UnknownRefIsUnresolved ==
  (/\ op \in {"resolve_ref", "get_version_from_ref"}
   /\ arg \notin DOMAIN doc.versions
   /\ arg \notin DOMAIN doc.branches
   /\ arg \notin DOMAIN doc.tags)
  => result = Raise("IndexError")

\* C4 witness: an unknown ref was looked up in a document that has versions,
\* branches and tags.
C4_Witness ==
  /\ op = "get_version_from_ref"
  /\ arg \notin DOMAIN doc.versions \cup DOMAIN doc.branches \cup DOMAIN doc.tags
  /\ DOMAIN doc.versions # {} /\ DOMAIN doc.branches # {} /\ DOMAIN doc.tags # {}
  /\ result.kind = "IndexError"

\* C5: get_version_from_ref returns versions[resolve_ref(ref)] when that name is
\* a key of versions, and when resolve_ref succeeds with a name absent from
\* versions it fails with an error of another kind than the unresolved one.
C5_VersionOfRefOrDanglingError ==
  op = "get_version_from_ref" =>
    LET r == resolve_ref(doc, arg)
    IN  r.kind = "ok" =>
          IF r.value \in DOMAIN doc.versions
          THEN result = Ok(Version(doc.versions[r.value], r.value))
          ELSE result.kind \notin {"ok", UnresolvedKind}

\* C5 witness: get_version_from_ref was called on a branch whose target is no
\* version and failed.
C5_Witness ==
  /\ op = "get_version_from_ref"
  /\ arg \notin DOMAIN doc.versions
  /\ arg \in DOMAIN doc.branches
  /\ doc.branches[arg] \notin DOMAIN doc.versions
  /\ result.kind = "KeyError"

\* C6: has_parents() is true exactly when the stored object declares a
\* non-empty parent list.
C6_HasParentsIffNonEmptyList ==
  op = "has_parents" =>
    LET j == doc.versions[arg]
    IN  result = Ok("parents" \in DOMAIN j /\ j.parents # <<>>)

C8_LabelsOfVersion ==
  /\ op = "branches" =>
       result = Ok({b \in DOMAIN doc.branches : doc.branches[b] = arg})
  /\ op = "tags" =>
       result = Ok({t \in DOMAIN doc.tags : doc.tags[t] = arg})

\* a stored version object without its message
Rest(j) == [k \in DOMAIN j \ {"message"} |-> j[k]]

\* C9: a message assignment keeps the set of version names, every version's
\* name, author, date, parent list and objects, the branches, the tags and
\* what every ref resolves to; it changes the message of the assigned version
\* only, and that message is the one a view derived afterwards reads. No other
\* call changes the document.
C9_MessageAssignmentFrame ==
  [][/\ op' = "set_message" =>
          /\ DOMAIN doc'.versions = DOMAIN doc.versions
          /\ \A n \in DOMAIN doc.versions :
               /\ name(versions(doc')[n]) = name(versions(doc)[n])
               /\ Rest(doc'.versions[n]) = Rest(doc.versions[n])
               /\ n # arg' => doc'.versions[n].message = doc.versions[n].message
          /\ doc'.branches = doc.branches
          /\ doc'.tags = doc.tags
          /\ \A r \in Names : resolve_ref(doc', r) = resolve_ref(doc, r)
          /\ message(versions(doc')[arg']) = val'
     /\ op' # "set_message" => doc' = doc]_vars

\* C9 witness: a version with a parent and a label in a document of several
\* versions was given a new message, and another version kept the old one.
C9_Witness ==
  /\ op = "set_message"
  /\ val = "second"
  /\ doc.versions[arg].message = "second"
  /\ "parents" \in DOMAIN doc.versions[arg]
  /\ doc.versions[arg].parents # <<>>
  /\ \E n \in DOMAIN doc.versions : n # arg /\ doc.versions[n].message = "root"
  /\ DOMAIN doc.branches # {}

\* C10: for a ref that is a tag name, a version of that name wins, else a
\* branch of that name wins; the tag's target is what resolve_ref returns only
\* when the ref is neither a version name nor a branch name.
C10_FirstMatchWins ==
  (op = "resolve_ref" /\ arg \in DOMAIN doc.tags) =>
    IF arg \in DOMAIN doc.versions THEN result = Ok(arg)
    ELSE IF arg \in DOMAIN doc.branches THEN result = Ok(doc.branches[arg])
    ELSE result = Ok(doc.tags[arg])

\* C10 witness: a ref that is no version name but a branch and a tag with
\* different targets was resolved to the branch's target.
C10_Witness ==
  /\ op = "resolve_ref"
  /\ arg \notin DOMAIN doc.versions
  /\ arg \in DOMAIN doc.branches
  /\ arg \in DOMAIN doc.tags
  /\ doc.branches[arg] # doc.tags[arg]
  /\ result = Ok(doc.branches[arg])

====
